---- MODULE Spec2Model ----
(***************************************************************************)
(* WarehouseActivityDataset (annotation loading, rare-class augmentation,  *)
(* per-sample weights, proposal filtering) and WeightedSampler.            *)
(*                                                                         *)
(* Real-valued class weights are kept in fixed point: a weight w is the    *)
(* integer w * WeightUnit.  Proposal scores and the score threshold are    *)
(* kept in hundredths.                                                     *)
(***************************************************************************)
EXTENDS Integers, Sequences, FiniteSets, TLC

\* ------------------------------------------------------------------ bounds
MaxLines == 2
MaxLoads == 2
MaxActors == 2
MaxProposals == 3
MaxN == 2

\* fixed-point unit of the class weights (2 = halves)
WeightUnit == 2

VARIABLES
    \* WarehouseActivityDataset: configuration
    ann_file,            \* the annotation file: a sequence of lines
    frame_dirs,          \* data_prefix['img']/<video>: frame indices on disk, or missing
    custom_classes,      \* self.custom_classes  ([isNone, val])
    class_weights,       \* self.class_weights   ([isNone, val])
    augment_labels,      \* self.augment_labels
    use_frames,          \* self.use_frames
    FPS,                 \* self._FPS            ([isDict, dict, const])
    \* WarehouseActivityDataset: state
    per_sample_weights,  \* self.per_sample_weights ([isNone, val])
    shot_info_dict,      \* self.shot_info_dict
    data_list,           \* value returned by the last load_data_list that returned
    load_status,         \* "new", "ok" or the exception that ended the last call
    num_loads,           \* number of load_data_list calls so far
    \* _duplicate_labels_within_frame, called on its own
    aug_in, aug_out,
    \* get_data_info
    proposals,           \* self.proposals ([isNone, store])
    person_det_score_thr, num_max_proposals,
    info,                \* result of the last get_data_info call
    \* WeightedSampler (one object per rank of the world)
    n_dataset, weights, shuffle, replacement, round_up, seed, world_size,
    epoch, generator, out

dsCfg == <<ann_file, frame_dirs, custom_classes, class_weights, augment_labels,
           use_frames, FPS>>
dsState == <<per_sample_weights, shot_info_dict, data_list, load_status, num_loads>>
augVars == <<aug_in, aug_out>>
propVars == <<proposals, person_det_score_thr, num_max_proposals, info>>
sampCfg == <<n_dataset, weights, shuffle, replacement, round_up, seed, world_size>>
sampState == <<epoch, generator, out>>
vars == <<dsCfg, dsState, augVars, propVars, sampCfg, sampState>>

\* ------------------------------------------------------------ generic helpers
Max2(a, b) == IF a >= b THEN a ELSE b
Min2(a, b) == IF a <= b THEN a ELSE b
MaxOfSet(S) == CHOOSE m \in S : \A x \in S : x <= m
SeqOfLen(S, lo, hi) == UNION {[1..k -> S] : k \in lo..hi}
Range(s) == {s[i] : i \in 1..Len(s)}
InList(s, x) == \E i \in 1..Len(s) : s[i] = x
\* list.index(x): 0-based position of the first occurrence
ListIndex(s, x) == (CHOOSE i \in 1..Len(s) : s[i] = x /\ \A j \in 1..(i - 1) : s[j] # x) - 1
RECURSIVE SumSeq(_)
SumSeq(s) == IF s = <<>> THEN 0 ELSE Head(s) + SumSeq(Tail(s))
RECURSIVE Flatten(_)
Flatten(ss) == IF ss = <<>> THEN <<>> ELSE Head(ss) \o Flatten(Tail(ss))
Put(f, k, v) == [x \in DOMAIN f \cup {k} |-> IF x = k THEN v ELSE f[x]]

NoneVal == [isNone |-> TRUE, val |-> <<>>]
Some(v) == [isNone |-> FALSE, val |-> v]

\* ------------------------------------------------------------ input universes
Videos == {"a", "b"}
Boxes == {1, 2}                    \* each number stands for one entity_box (4 floats)
EntityOf(box) == 10 + box          \* the entity id annotated with a box
Line(v, t, b, c) ==
    [video_id |-> v, timestamp |-> t, entity_box |-> b, class_id |-> c,
     entity_id |-> EntityOf(b)]
\* the lines an annotation file is made of (class 2 is outside the whitelist)
AnnLines ==
    {Line("a", 1, 1, 3), Line("a", 1, 1, 1), Line("a", 1, 2, 1), Line("a", 1, 1, 2),
     Line("a", 2, 1, 3), Line("b", 1, 1, 1), Line("b", 1, 2, 2), Line("b", 1, 1, 3)}
\* self.custom_classes after __init__: [0] + custom_classes, here custom_classes=[3, 1]
CustomClassList == <<0, 3, 1>>
\* the class ids of the label map; num_classes when no custom_classes are given
ClassIds == 0..3
NumClassesDefault == Cardinality(ClassIds)
\* class weight tables, in WeightUnit-ths: 1.0, 1.5, 2.5 / 1.0, 3.0, 0.5 / 1.0, 2.0, 2.0
WeightTables ==
    {[c \in {0, 1, 3} |-> CASE c = 0 -> 2 [] c = 1 -> 3 [] c = 3 -> 5],
     [c \in {0, 1, 3} |-> CASE c = 0 -> 2 [] c = 1 -> 6 [] c = 3 -> 1],
     [c \in {0, 1, 3} |-> CASE c = 0 -> 2 [] c = 1 -> 4 [] c = 3 -> 4]}
LoadWeightTable == [c \in {0, 1, 3} |-> CASE c = 0 -> 2 [] c = 1 -> 3 [] c = 3 -> 5]

\* ------------------------------------------------------------ text conversions
RECURSIVE Digits(_)
Digits(n) == IF n < 10 THEN <<n>> ELSE Digits(n \div 10) \o <<n % 10>>
RECURSIVE ZeroPad(_, _)
ZeroPad(d, w) == IF Len(d) >= w THEN d ELSE ZeroPad(<<0>> \o d, w)
\* f'{n:05d}' as its sequence of digits
Format05d(n) == ZeroPad(Digits(n), 5)
\* int(text) of a digit string
RECURSIVE ParseInt(_)
ParseInt(d) ==
    IF d = <<>> THEN 0 ELSE ParseInt(SubSeq(d, 1, Len(d) - 1)) * 10 + d[Len(d)]
\* a key that leaves the timestamp out
ImgKeyNoTimestamp(video_id, timestamp) == <<video_id, Format05d(0)>>
\* f'{video_id},{timestamp:05d}': the two comma-separated parts of the key
ImgKey(video_id, timestamp) == <<video_id, Format05d(timestamp)>>
\* string order of two digit strings (the order sorted() puts file names in)
RECURSIVE LexLeq(_, _)
LexLeq(x, y) ==
    IF x = <<>> THEN TRUE
    ELSE IF y = <<>> THEN FALSE
    ELSE IF Head(x) # Head(y) THEN Head(x) < Head(y)
    ELSE LexLeq(Tail(x), Tail(y))

\* ------------------------------------------------------------ __init__
\* int(round(fps)) of an fps given in halves (Python rounds halves to even)
RoundHalves(h) ==
    IF h % 2 = 0 THEN h \div 2
    ELSE IF ((h - 1) \div 2) % 2 = 0 THEN (h - 1) \div 2 ELSE (h + 1) \div 2
RECURSIVE create_fps_mapping(_)
create_fps_mapping(rows) ==
    IF rows = <<>> THEN [x \in {} |-> 0]
    ELSE Put(create_fps_mapping(SubSeq(rows, 1, Len(rows) - 1)),
             rows[Len(rows)].image_name, RoundHalves(rows[Len(rows)].fps))
\* self._FPS after __init__
InitFPS(fps_file, fps) ==
    IF fps_file.isNone
    THEN [isDict |-> FALSE, dict |-> [x \in {} |-> 0], const |-> fps]
    ELSE [isDict |-> TRUE, dict |-> Put(create_fps_mapping(fps_file.val), "default", fps),
          const |-> 0]
\* self.per_sample_weights after __init__
InitPerSampleWeights(cw) == IF cw.isNone THEN NoneVal ELSE Some(<<>>)

\* ------------------------------------------------------------ shot info
ShotNone == [isNone |-> TRUE, start |-> 0, end |-> 0]
Shot(s, e) == [isNone |-> FALSE, start |-> s, end |-> e]
DirMissing == [exists |-> FALSE, files |-> {}]
DirOf(frames) == [exists |-> TRUE, files |-> {Format05d(i) : i \in frames}]
\* _get_frame_id_from_filename of img_<digits>.jpg
get_frame_id_from_filename(digits) == ParseInt(digits)
RECURSIVE ShotInfoLoop(_, _)
ShotInfoLoop(rows, acc) ==
    IF rows = <<>> THEN acc
    ELSE LET v == Head(rows).video_id
             d == frame_dirs[v]
         IN IF v \in DOMAIN acc.dict THEN ShotInfoLoop(Tail(rows), acc)
            ELSE IF ~d.exists THEN [acc EXCEPT !.err = "FileNotFoundError"]
            ELSE IF d.files = {} THEN [acc EXCEPT !.err = "IndexError"]
            ELSE LET first_file == CHOOSE f \in d.files : \A g \in d.files : LexLeq(f, g)
                     last_file == CHOOSE f \in d.files : \A g \in d.files : LexLeq(g, f)
                 IN ShotInfoLoop(Tail(rows),
                        [acc EXCEPT !.dict = Put(@, v,
                            Shot(get_frame_id_from_filename(first_file),
                                 get_frame_id_from_filename(last_file)))])
\* build_shot_info_dict: pandas.read_csv takes the first line of the file as the
\* header row, so the video names are those of the lines after it
build_shot_info_dict ==
    IF ann_file = <<>>
    THEN [err |-> "EmptyDataError", dict |-> [x \in {} |-> ShotNone]]
    ELSE ShotInfoLoop(Tail(ann_file), [err |-> "", dict |-> [x \in {} |-> ShotNone]])

\* ------------------------------------------------------------ labels
num_classes == IF custom_classes.isNone THEN NumClassesDefault ELSE Len(custom_classes.val)
\* np.where(label == 1)[0]: the 0-based positions of the ones of a one-hot row
RECURSIVE OnesFrom(_, _)
OnesFrom(label, c) ==
    IF c > Len(label) THEN <<>>
    ELSE (IF label[c] = 1 THEN <<c - 1>> ELSE <<>>) \o OnesFrom(label, c + 1)
RowOnes(label) == OnesFrom(label, 1)
\* _convert_one_hot_to_label: np.where(labels == 1)[1], row by row
RECURSIVE convert_one_hot_to_label(_)
convert_one_hot_to_label(labels) ==
    IF labels = <<>> THEN <<>>
    ELSE RowOnes(Head(labels)) \o convert_one_hot_to_label(Tail(labels))
\* self.class_weights[self.custom_classes[idx]]
WeightOfCompact(idx) == class_weights.val[custom_classes.val[idx + 1]]
RECURSIVE Repeat(_, _)
Repeat(x, k) == IF k <= 0 THEN <<>> ELSE <<x>> \o Repeat(x, k - 1)

\* parse_img_record (AVADataset): one actor per distinct entity_box, in order of
\* first appearance, holding the one-hot row of the labels annotated with that box
RECURSIVE parse_img_record(_)
parse_img_record(img_records) ==
    IF img_records = <<>>
    THEN [bboxes |-> <<>>, labels |-> <<>>, entity_ids |-> <<>>]
    ELSE LET img_record == Head(img_records)
             Same(x) == x.entity_box = img_record.entity_box
             Other(x) == x.entity_box # img_record.entity_box
             selected_records == SelectSeq(img_records, Same)
             valid_labels == {selected_records[i].label : i \in 1..Len(selected_records)}
             label == [c \in 1..num_classes |-> IF (c - 1) \in valid_labels THEN 1 ELSE 0]
             rest == parse_img_record(SelectSeq(img_records, Other))
         IN [bboxes |-> <<img_record.entity_box>> \o rest.bboxes,
             labels |-> <<label>> \o rest.labels,
             entity_ids |-> <<img_record.entity_id>> \o rest.entity_ids]

\* ------------------------------------------------------------ augmentation
\* duplication_factor = int(max(max(weights), 1))
DuplicationFactor(label) ==
    LET label_idxs == RowOnes(label)
        ws == {WeightOfCompact(label_idxs[i]) : i \in 1..Len(label_idxs)}
    IN Max2(MaxOfSet(ws), 1 * WeightUnit) \div WeightUnit
\* one copy too many: range(duplication_factor) instead of range(duplication_factor - 1)
CopiesOffByOne(label) == 1 + DuplicationFactor(label)
\* the copies of actor i in the output: the original and range(duplication_factor - 1)
Copies(label) == 1 + Max2(DuplicationFactor(label) - 1, 0)
RECURSIVE DuplicateFrom(_, _, _, _)
DuplicateFrom(i, bboxes, labels, entity_ids) ==
    IF i > Len(labels)
    THEN [bboxes |-> <<>>, labels |-> <<>>, entity_ids |-> <<>>]
    ELSE LET k == Copies(labels[i])
             rest == DuplicateFrom(i + 1, bboxes, labels, entity_ids)
         IN [bboxes |-> Repeat(bboxes[i], k) \o rest.bboxes,
             labels |-> Repeat(labels[i], k) \o rest.labels,
             entity_ids |-> Repeat(entity_ids[i], k) \o rest.entity_ids]
duplicate_labels_within_frame(bboxes, labels, entity_ids) ==
    DuplicateFrom(1, bboxes, labels, entity_ids)

\* ------------------------------------------------------------ load_data_list
\* first loop (one annotation line): whitelist, label translation, shot info, grouping
LineStep(acc, line) ==
    LET raw == line.class_id
        skip == ~custom_classes.isNone /\ ~InList(custom_classes.val, raw)
        label == IF custom_classes.isNone THEN raw ELSE ListIndex(custom_classes.val, raw)
        video_id == line.video_id
        img_key == ImgKey(video_id, line.timestamp)
    IN IF skip THEN acc
       ELSE IF use_frames /\ video_id \notin DOMAIN acc.shot
       THEN [acc EXCEPT !.err = "KeyError"]
       ELSE LET shot_info == IF use_frames THEN acc.shot[video_id] ELSE ShotNone
                video_info == [video_id |-> video_id, timestamp |-> line.timestamp,
                               entity_box |-> line.entity_box, label |-> label,
                               entity_id |-> line.entity_id, shot_info |-> shot_info]
            IN [err |-> "",
                shot |-> Put(acc.shot, video_id, shot_info),
                keys |-> IF img_key \in DOMAIN acc.groups THEN acc.keys
                         ELSE Append(acc.keys, img_key),
                groups |-> IF img_key \in DOMAIN acc.groups
                           THEN [acc.groups EXCEPT ![img_key] = Append(@, video_info)]
                           ELSE Put(acc.groups, img_key, <<video_info>>)]
RECURSIVE ReadLines(_, _)
ReadLines(lines, acc) ==
    IF lines = <<>> \/ acc.err # "" THEN acc
    ELSE ReadLines(Tail(lines), LineStep(acc, Head(lines)))

\* self._FPS.get(video_id, self._FPS['default'])
ResolveFps(video_id) ==
    IF video_id \in DOMAIN FPS.dict THEN FPS.dict[video_id] ELSE FPS.dict["default"]
\* the labels the per-sample weight is summed over
WeightedLabels(ann) == convert_one_hot_to_label(ann.labels)
\* the weight of the branch without class weights: 1.0 per label
TotalWeightUnweighted(ann) == Len(WeightedLabels(ann)) * WeightUnit
\* total_weight = sum(class_weights[custom_classes[label]] for label in converted_labels)
TotalWeight(ann) ==
    LET converted_labels == WeightedLabels(ann)
    IN SumSeq([i \in 1..Len(converted_labels) |-> WeightOfCompact(converted_labels[i])])
\* second loop (one image key): the record and its per-sample weight
RecordStep(acc, img_key, groups, shot) ==
    LET video_id == img_key[1]
        timestamp == ParseInt(img_key[2])
        parsed == parse_img_record(groups[img_key])
        augment == augment_labels /\ ~class_weights.isNone
    IN IF augment /\ custom_classes.isNone THEN [acc EXCEPT !.err = "TypeError"]
       ELSE IF ~FPS.isDict THEN [acc EXCEPT !.err = "AttributeError"]
       ELSE IF custom_classes.isNone THEN [acc EXCEPT !.err = "TypeError"]
       ELSE LET ann == IF augment
                       THEN duplicate_labels_within_frame(
                                parsed.bboxes, parsed.labels, parsed.entity_ids)
                       ELSE parsed
                video_info == [path_field |-> IF use_frames THEN "frame_dir" ELSE "filename",
                               video_id |-> video_id, timestamp |-> timestamp,
                               img_key |-> img_key, shot_info |-> shot[video_id],
                               fps |-> ResolveFps(video_id), ann |-> ann]
            IN [err |-> "",
                psw |-> IF class_weights.isNone THEN acc.psw
                        ELSE Some(Append(acc.psw.val, TotalWeight(ann))),
                data |-> Append(acc.data, video_info)]
RECURSIVE BuildRecords(_, _, _, _)
BuildRecords(keys, acc, groups, shot) ==
    IF keys = <<>> \/ acc.err # "" THEN acc
    ELSE BuildRecords(Tail(keys), RecordStep(acc, Head(keys), groups, shot), groups, shot)

\* the whole call: [err, shot (self.shot_info_dict), psw (self.per_sample_weights), data]
load_data_list ==
    LET built == build_shot_info_dict
    IN IF built.err # ""
       THEN [err |-> built.err, shot |-> shot_info_dict, psw |-> per_sample_weights,
             data |-> <<>>]
       ELSE LET read == ReadLines(ann_file,
                            [err |-> "", shot |-> built.dict, keys |-> <<>>,
                             groups |-> [x \in {} |-> <<>>]])
            IN IF read.err # ""
               THEN [err |-> read.err, shot |-> read.shot, psw |-> per_sample_weights,
                     data |-> <<>>]
               ELSE LET recs == BuildRecords(read.keys,
                                    [err |-> "", psw |-> per_sample_weights, data |-> <<>>],
                                    read.groups, read.shot)
                    IN [err |-> recs.err, shot |-> read.shot, psw |-> recs.psw,
                        data |-> recs.data]

LoadDataList ==
    /\ num_loads < MaxLoads
    /\ LET r == load_data_list
       IN /\ load_status' = (IF r.err = "" THEN "ok" ELSE r.err)
          /\ shot_info_dict' = r.shot
          /\ per_sample_weights' = r.psw
          /\ data_list' = (IF r.err = "" THEN r.data ELSE data_list)
    /\ num_loads' = num_loads + 1
    /\ UNCHANGED <<dsCfg, augVars, propVars, sampCfg, sampState>>

\* ------------------------------------------------------------ idle parts
IdleDatasetState ==
    /\ shot_info_dict = [x \in {} |-> ShotNone]
    /\ data_list = <<>>
    /\ load_status = "new"
    /\ num_loads = 0
NoArrays == [bboxes |-> <<>>, labels |-> <<>>, entity_ids |-> <<>>]
IdleAug == aug_in = NoArrays /\ aug_out = [called |-> FALSE, arrays |-> NoArrays]
NoInfo ==
    [status |-> "new", img_key |-> <<>>, has_proposals |-> FALSE, proposals |-> <<>>,
     has_scores |-> FALSE, scores |-> <<>>, gt_bboxes |-> <<>>, gt_labels |-> <<>>,
     entity_ids |-> <<>>]
IdleProposals ==
    /\ proposals = NoneVal
    /\ person_det_score_thr = 90
    /\ num_max_proposals = 1000
    /\ info = NoInfo
IdleSampler ==
    /\ n_dataset = 0 /\ weights = NoneVal /\ shuffle = FALSE /\ replacement = FALSE
    /\ round_up = FALSE /\ seed = 0 /\ world_size = 1
    /\ epoch = <<>> /\ generator = [x \in {} |-> <<>>] /\ out = <<>>

\* ------------------------------------------------------------ loading a dataset
FrameDirChoices ==
    {[v \in Videos |-> IF v = "a" THEN DirOf(1..5) ELSE d] :
        d \in {DirOf({3, 4}), DirMissing, DirOf({})}}
FpsChoices ==
    {InitFPS(NoneVal, 30),
     InitFPS(Some(<<[image_name |-> "a", fps |-> 49]>>), 30)}
ClassChoices ==
    {<<NoneVal, NoneVal>>, <<Some(CustomClassList), NoneVal>>,
     <<Some(CustomClassList), Some(LoadWeightTable)>>}
InitLoad ==
    /\ ann_file \in SeqOfLen(AnnLines, 0, MaxLines)
    /\ frame_dirs \in FrameDirChoices
    /\ \E cc \in ClassChoices : custom_classes = cc[1] /\ class_weights = cc[2]
    /\ augment_labels \in BOOLEAN
    /\ use_frames \in BOOLEAN
    /\ FPS \in FpsChoices
    /\ per_sample_weights = InitPerSampleWeights(class_weights)
    /\ IdleDatasetState /\ IdleAug /\ IdleProposals /\ IdleSampler
NextLoad == LoadDataList
SpecLoad == InitLoad /\ [][NextLoad]_vars

\* ------------------------------------------------------------ properties of loading
Whitelisted(line) == custom_classes.isNone \/ InList(custom_classes.val, line.class_id)
\* the annotation lines of frame (video_id, timestamp) that pass the whitelist
FrameLines(video_id, timestamp) ==
    {l \in Range(ann_file) :
        l.video_id = video_id /\ l.timestamp = timestamp /\ Whitelisted(l)}
\* the frame's actor-label pairs as annotated: (entity_box, original class id)
OriginalPairs(video_id, timestamp) ==
    {<<l.entity_box, l.class_id>> : l \in FrameLines(video_id, timestamp)}
RECURSIVE SumPairWeights(_)
SumPairWeights(S) ==
    IF S = {} THEN 0
    ELSE LET pair == CHOOSE y \in S : TRUE
         IN class_weights.val[pair[2]] + SumPairWeights(S \ {pair})
OriginalWeight(video_id, timestamp) == SumPairWeights(OriginalPairs(video_id, timestamp))
\* the (entity_box, original class id) pairs a built record holds
RecordPairs(rec) ==
    UNION {{<<rec.ann.bboxes[i], custom_classes.val[c + 1]>> :
                c \in Range(RowOnes(rec.ann.labels[i]))} : i \in 1..Len(rec.ann.labels)}
\* the weight appended for record i by the call that returned data_list
AppendedWeight(i) ==
    per_sample_weights.val[Len(per_sample_weights.val) - Len(data_list) + i]
Loaded == load_status = "ok"

\* the copies of the actor annotated with `box` that the built record holds
ActorCopies(video_id, timestamp, box) ==
    LET ws == {class_weights.val[pair[2]] :
                  pair \in {q \in OriginalPairs(video_id, timestamp) : q[1] = box}}
        top == CHOOSE w \in ws : \A x \in ws : x <= w
    IN IF augment_labels /\ top >= 2 * WeightUnit THEN top \div WeightUnit ELSE 1
RECURSIVE SumCopiedPairWeights(_, _, _)
SumCopiedPairWeights(S, video_id, timestamp) ==
    IF S = {} THEN 0
    ELSE LET pair == CHOOSE y \in S : TRUE
         IN class_weights.val[pair[2]] * ActorCopies(video_id, timestamp, pair[1])
            + SumCopiedPairWeights(S \ {pair}, video_id, timestamp)
AugmentedWeight(video_id, timestamp) ==
    SumCopiedPairWeights(OriginalPairs(video_id, timestamp), video_id, timestamp)

\* C1 as stated: with class weights configured, the weight appended for every
\* record equals the sum of the class weights of the frame's original
\* (pre-augmentation) actor-label pairs, also when augment_labels duplicated an actor.
C1_WeightIsOriginalSum ==
    (Loaded /\ ~class_weights.isNone) =>
        \A i \in 1..Len(data_list) :
            AppendedWeight(i) = OriginalWeight(data_list[i].video_id, data_list[i].timestamp)
\* C1 as amended: the weight appended for a record is the sum of the class weights
\* of the actor-label pairs the record holds: every original pair counted once per
\* copy of its actor, that is once without augment_labels and
\* max(1, floor(max weight of the actor's classes)) times with it.
C1_WeightIsAugmentedSum ==
    (Loaded /\ ~class_weights.isNone) =>
        \A i \in 1..Len(data_list) :
            AppendedWeight(i) = AugmentedWeight(data_list[i].video_id, data_list[i].timestamp)
\* a frame of one actor with the class of weight 2.5: the actor is held twice and
\* the appended weight is 5.0
C1_Witness ==
    /\ Loaded /\ ~class_weights.isNone /\ augment_labels
    /\ Len(data_list) = 1
    /\ OriginalPairs(data_list[1].video_id, data_list[1].timestamp) = {<<1, 3>>}
    /\ Len(data_list[1].ann.labels) = 2
    /\ AppendedWeight(1) = 5 * WeightUnit

\* C2: with class weights configured per_sample_weights holds exactly one
\* non-negative weight per record of the returned list, after any number of
\* load_data_list calls; without class weights it is None.
C2_OneWeightPerRecord ==
    /\ class_weights.isNone => per_sample_weights.isNone
    /\ (Loaded /\ ~class_weights.isNone) =>
          /\ ~per_sample_weights.isNone
          /\ Len(per_sample_weights.val) = Len(data_list)
          /\ \A i \in 1..Len(per_sample_weights.val) : per_sample_weights.val[i] >= 0

\* C5: frame-rate resolution never fails, and every record carries the table's
\* fps of its video id, or the default when the id is not in the table, with a
\* per-video table as well as with a single constant fps.
C5_FpsNeverFails ==
    num_loads > 0 =>
        /\ load_status # "AttributeError"
        /\ Loaded =>
              \A i \in 1..Len(data_list) :
                  data_list[i].fps =
                      IF FPS.isDict /\ data_list[i].video_id \in DOMAIN FPS.dict \ {"default"}
                      THEN FPS.dict[data_list[i].video_id]
                      ELSE IF FPS.isDict THEN FPS.dict["default"] ELSE FPS.const

\* C9: load_data_list returns exactly one record per distinct (video_id, timestamp)
\* among the whitelisted lines, whatever their order; lines with the same key are
\* in the same record, and a line outside the whitelist is in no record.
C9_OneRecordPerKey ==
    Loaded =>
        /\ \A i, j \in 1..Len(data_list) :
              (data_list[i].video_id = data_list[j].video_id
               /\ data_list[i].timestamp = data_list[j].timestamp) => i = j
        /\ {<<data_list[i].video_id, data_list[i].timestamp>> : i \in 1..Len(data_list)}
              = {<<l.video_id, l.timestamp>> : l \in {x \in Range(ann_file) : Whitelisted(x)}}
        /\ \A i \in 1..Len(data_list) :
              RecordPairs(data_list[i])
                  = OriginalPairs(data_list[i].video_id, data_list[i].timestamp)
\* a load that returned one record built from the two lines of one frame
C9_Witness ==
    /\ Loaded
    /\ Len(ann_file) = 2
    /\ Len(data_list) = 1
    /\ Cardinality(RecordPairs(data_list[1])) = 2

\* C10: with use_frames false load_data_list skips the shot-info build: a missing
\* or empty frame directory cannot abort the load and every record has shot_info null.
C10_NoShotInfoBuild ==
    (~use_frames /\ num_loads > 0) =>
        /\ load_status \notin {"FileNotFoundError", "IndexError"}
        /\ Loaded => \A i \in 1..Len(data_list) : data_list[i].shot_info.isNone

\* the video ids that occur on a whitelisted line of the annotation file
WhitelistedVideos == {l.video_id : l \in {x \in Range(ann_file) : Whitelisted(x)}}
\* C11: every video id on a whitelisted line, also one that occurs only on the
\* first line of the file or is otherwise absent from the table built by
\* build_shot_info_dict, produces its records: load_data_list never fails on the
\* shot-info lookup and a returned list has a record of each such video id.
C11_NoLookupFailure ==
    num_loads > 0 =>
        /\ load_status # "KeyError"
        /\ Loaded =>
              WhitelistedVideos = {data_list[i].video_id : i \in 1..Len(data_list)}

\* ------------------------------------------------------------ augmentation alone
\* one-hot rows with at least one active class
OneHotRows == {r \in [1..Len(CustomClassList) -> {0, 1}] : \E c \in DOMAIN r : r[c] = 1}
ActorArrays ==
    {[bboxes |-> [i \in 1..Len(a) |-> a[i][1]], labels |-> [i \in 1..Len(a) |-> a[i][2]],
      entity_ids |-> [i \in 1..Len(a) |-> a[i][3]]] :
        a \in SeqOfLen(Boxes \X OneHotRows \X {11, 12}, 0, MaxActors)}
InitAug ==
    /\ custom_classes = Some(CustomClassList)
    /\ class_weights \in {Some(t) : t \in WeightTables}
    /\ augment_labels = TRUE
    /\ aug_in \in ActorArrays
    /\ aug_out = [called |-> FALSE, arrays |-> NoArrays]
    /\ ann_file = <<>> /\ frame_dirs = [v \in Videos |-> DirMissing]
    /\ use_frames = FALSE /\ FPS = InitFPS(NoneVal, 30)
    /\ per_sample_weights = InitPerSampleWeights(class_weights)
    /\ IdleDatasetState /\ IdleProposals /\ IdleSampler
DuplicateLabels ==
    /\ ~aug_out.called
    /\ aug_out' = [called |-> TRUE,
                   arrays |-> duplicate_labels_within_frame(
                                  aug_in.bboxes, aug_in.labels, aug_in.entity_ids)]
    /\ UNCHANGED <<aug_in, dsCfg, dsState, propVars, sampCfg, sampState>>
NextAug == DuplicateLabels
SpecAug == InitAug /\ [][NextAug]_vars

\* the weights of the active classes of input actor i
ActiveWeights(i) ==
    {class_weights.val[CustomClassList[c]] :
        c \in {x \in 1..Len(aug_in.labels[i]) : aug_in.labels[i][x] = 1}}
\* max(1, floor(max of the active weights))
ExpectedCopies(i) == Max2(1, MaxOfSet(ActiveWeights(i)) \div WeightUnit)
ExpectedArray(arr) == Flatten([i \in 1..Len(arr) |-> Repeat(arr[i], ExpectedCopies(i))])

\* C3: _duplicate_labels_within_frame emits, for each input actor in input order,
\* exactly max(1, floor(max active class weight)) consecutive copies of its
\* (bbox, label, entity_id) triple; the three output arrays have equal length, the
\* actor count never decreases and grows only for actors with a class of weight >= 2.
C3_DuplicationFactor ==
    aug_out.called =>
        /\ aug_out.arrays.bboxes = ExpectedArray(aug_in.bboxes)
        /\ aug_out.arrays.labels = ExpectedArray(aug_in.labels)
        /\ aug_out.arrays.entity_ids = ExpectedArray(aug_in.entity_ids)
        /\ Len(aug_out.arrays.bboxes) = Len(aug_out.arrays.labels)
        /\ Len(aug_out.arrays.labels) = Len(aug_out.arrays.entity_ids)
        /\ Len(aug_out.arrays.labels) >= Len(aug_in.labels)
        /\ (Len(aug_out.arrays.labels) > Len(aug_in.labels)) =>
              \E i \in 1..Len(aug_in.labels) :
                  \E w \in ActiveWeights(i) : w >= 2 * WeightUnit
        /\ (\A i \in 1..Len(aug_in.labels) :
                \A w \in ActiveWeights(i) : w < 2 * WeightUnit) =>
              aug_out.arrays = aug_in
\* two actors, the first copied three times and the second left alone
C3_Witness ==
    /\ aug_out.called
    /\ Len(aug_in.labels) = 2
    /\ ExpectedCopies(1) = 3 /\ ExpectedCopies(2) = 1
    /\ Len(aug_out.arrays.labels) = 4

\* ------------------------------------------------------------ get_data_info
\* a proposal box, as (smallest, largest) coordinate in tenths
ProposalBoxes == {<<0, 10>>, <<1, 12>>}
\* detection scores and thresholds in hundredths
Scores == {10, 20, 95, 99}
Thresholds == {15, 90}
NumMaxChoices == {1, 2, 1000}
ProposalArrays ==
    {[width |-> 5, rows |-> r] :
        r \in SeqOfLen([box : ProposalBoxes, score : Scores], 0, MaxProposals)}
    \cup
    {[width |-> w, rows |-> r] :
        w \in {4, 6}, r \in SeqOfLen([box : ProposalBoxes, score : {0}], 0, 2)}
ExampleArray ==
    [width |-> 5, rows |-> <<[box |-> <<0, 10>>, score |-> 20],
                             [box |-> <<0, 10>>, score |-> 95],
                             [box |-> <<1, 9>>, score |-> 99]>>]
FrameRecord(video_id, timestamp) ==
    [path_field |-> "frame_dir", video_id |-> video_id, timestamp |-> timestamp,
     img_key |-> ImgKey(video_id, timestamp), shot_info |-> Shot(1, 5), fps |-> 30,
     ann |-> [bboxes |-> <<1>>, labels |-> <<<<0, 1, 0>>>>, entity_ids |-> <<11>>]]
\* thr = person_det_score_thr alone
ThrNominal(scores) == person_det_score_thr
\* thr = min(self.person_det_score_thr, max(proposals[:, 4]))
Thr(scores) == Min2(person_det_score_thr, MaxOfSet(Range(scores)))
\* proposals[:self.num_max_proposals]
Truncate(rows) == SubSeq(rows, 1, Min2(Len(rows), num_max_proposals))
BoxesOf(rows) == [i \in 1..Len(rows) |-> rows[i].box]
ScoresOf(rows) == [i \in 1..Len(rows) |-> rows[i].score]
\* assert data_info['proposals'].max() <= 1 and data_info['proposals'].min() >= 0
RangeCheck(res) ==
    IF res.proposals = <<>> THEN [res EXCEPT !.status = "ValueError"]
    ELSE IF \A i \in 1..Len(res.proposals) :
                res.proposals[i][1] >= 0 /\ res.proposals[i][2] <= 10
    THEN res
    ELSE [res EXCEPT !.status = "AssertionError"]
get_data_info(idx) ==
    LET data_info == data_list[idx]
        base == [status |-> "ok", img_key |-> data_info.img_key,
                 has_proposals |-> FALSE, proposals |-> <<>>,
                 has_scores |-> FALSE, scores |-> <<>>,
                 gt_bboxes |-> data_info.ann.bboxes, gt_labels |-> data_info.ann.labels,
                 entity_ids |-> data_info.ann.entity_ids]
    IN IF proposals.isNone THEN base
       ELSE IF data_info.img_key \notin DOMAIN proposals.val
       THEN [base EXCEPT !.status = "ValueError"]
       ELSE LET stored == proposals.val[data_info.img_key]
            IN IF stored.width \notin {4, 5} THEN [base EXCEPT !.status = "AssertionError"]
               ELSE IF stored.width = 5
               THEN IF stored.rows = <<>> THEN [base EXCEPT !.status = "ValueError"]
                    ELSE LET thr == Thr(ScoresOf(stored.rows))
                             Positive(r) == r.score >= thr
                             kept == Truncate(SelectSeq(stored.rows, Positive))
                         IN RangeCheck([base EXCEPT !.has_proposals = TRUE,
                                                    !.proposals = BoxesOf(kept),
                                                    !.has_scores = TRUE,
                                                    !.scores = ScoresOf(kept)])
               ELSE RangeCheck([base EXCEPT !.has_proposals = TRUE,
                                            !.proposals = BoxesOf(Truncate(stored.rows))])
GetDataInfo(idx) ==
    /\ info' = get_data_info(idx)
    /\ UNCHANGED <<proposals, person_det_score_thr, num_max_proposals,
                   dsCfg, dsState, augVars, sampCfg, sampState>>
InitProposals ==
    /\ data_list = <<FrameRecord("a", 1), FrameRecord("a", 2)>>
    /\ proposals \in
          {NoneVal}
          \cup {Some([k \in {ImgKey("a", 1)} |-> arr]) : arr \in ProposalArrays}
          \cup {Some([k \in {ImgKey("a", 1), ImgKey("a", 2)} |->
                        IF k = ImgKey("a", 1) THEN arr ELSE ExampleArray]) :
                    arr \in ProposalArrays}
    /\ person_det_score_thr \in Thresholds
    /\ num_max_proposals \in NumMaxChoices
    /\ info = NoInfo
    /\ ann_file = <<>> /\ frame_dirs = [v \in Videos |-> DirOf(1..5)]
    /\ custom_classes = Some(CustomClassList) /\ class_weights = NoneVal
    /\ augment_labels = FALSE /\ use_frames = TRUE /\ FPS = InitFPS(NoneVal, 30)
    /\ per_sample_weights = NoneVal
    /\ shot_info_dict = [v \in {"a"} |-> Shot(1, 5)]
    /\ load_status = "ok" /\ num_loads = 1
    /\ IdleAug /\ IdleSampler
NextProposals == \E idx \in 1..Len(data_list) : GetDataInfo(idx)
SpecProposals == InitProposals /\ [][NextProposals]_vars

\* the array stored for the frame the last call was about
StoredFor(i) == proposals.val[i.img_key]
FiveColumns(i) ==
    /\ i.status # "new" /\ ~proposals.isNone
    /\ i.img_key \in DOMAIN proposals.val
    /\ StoredFor(i).width = 5 /\ StoredFor(i).rows # <<>>
\* the rows that clear min(threshold, best score of the frame), as stored positions
Survivors(rows) ==
    LET top == MaxOfSet({rows[k].score : k \in 1..Len(rows)})
        bar == IF person_det_score_thr <= top THEN person_det_score_thr ELSE top
    IN {k \in 1..Len(rows) : rows[k].score >= bar}
\* the stored position of the j-th survivor
NthSurvivor(rows, j) ==
    CHOOSE k \in Survivors(rows) : Cardinality({m \in Survivors(rows) : m <= k}) = j
ExpectedCount(rows) ==
    IF Cardinality(Survivors(rows)) <= num_max_proposals
    THEN Cardinality(Survivors(rows)) ELSE num_max_proposals

\* C4: for an N x 5 array get_data_info keeps, in stored order, the rows with
\* score >= min(person_det_score_thr, max score), at most num_max_proposals (>= 1)
\* of them, as a box array and a score array of equal length; at least one row
\* survives ([0.2, 0.95, 0.99] at 0.9 keeps 2, [0.1, 0.2] keeps 1, the maximum).
C4_ProposalFilter ==
    FiveColumns(info) =>
        LET rows == StoredFor(info).rows
            n == ExpectedCount(rows)
            valid == \A j \in 1..n : rows[NthSurvivor(rows, j)].box[1] >= 0
                                     /\ rows[NthSurvivor(rows, j)].box[2] <= 10
        IN /\ info.status = (IF valid THEN "ok" ELSE "AssertionError")
           /\ n >= 1
           /\ info.has_proposals /\ info.has_scores
           /\ Len(info.proposals) = n /\ Len(info.scores) = n
           /\ \A j \in 1..n :
                 /\ info.proposals[j] = rows[NthSurvivor(rows, j)].box
                 /\ info.scores[j] = rows[NthSurvivor(rows, j)].score
           /\ (ScoresOf(rows) = <<20, 95, 99>> /\ person_det_score_thr = 90
               /\ num_max_proposals >= 2) => info.scores = <<95, 99>>
           /\ (ScoresOf(rows) = <<10, 20>> /\ person_det_score_thr = 90)
                 => info.scores = <<20>>
\* every score is below the threshold of 0.9 and the best one alone is returned
C4_Witness ==
    /\ FiveColumns(info) /\ info.status = "ok"
    /\ ScoresOf(StoredFor(info).rows) = <<10, 20>>
    /\ person_det_score_thr = 90
    /\ info.scores = <<20>> /\ Len(info.proposals) = 1

\* ------------------------------------------------------------ WeightedSampler
WorldSizes == {1, 2}
Epochs == {0, 1}
Seeds == {3}
Ranks == 0..(world_size - 1)
\* DefaultSampler.__init__: num_samples and total_size
CeilDiv(a, b) == (a + b - 1) \div b
total_size ==
    IF round_up THEN CeilDiv(n_dataset, world_size) * world_size ELSE n_dataset
\* torch.arange(len(self.dataset)).tolist()
Arange(n) == [i \in 1..n |-> i - 1]
\* a draw that may repeat indices
RandpermWithRepeats(n) == [1..n -> 0..(n - 1)]
\* torch.randperm(n, generator=g): some permutation of 0..n-1
Randperm(n) == {p \in [1..n -> 0..(n - 1)] : \A i, j \in 1..n : p[i] = p[j] => i = j}
\* WeightedRandomSampler(weights, num_samples, replacement, generator):
\* torch.multinomial over the indices of positive weight
WeightedDraws(w, num_samples, repl) ==
    LET support == {i - 1 : i \in {k \in 1..Len(w) : w[k] > 0}}
    IN IF repl THEN [1..num_samples -> support]
       ELSE {p \in [1..num_samples -> support] :
                \A i, j \in 1..num_samples : p[i] = p[j] => i = j}
\* what the generator seeded with one value can return to this sampler
Draws ==
    IF weights.isNone THEN Randperm(n_dataset)
    ELSE WeightedDraws(weights.val, n_dataset, replacement)
\* a seed that differs from rank to rank
GenSeedPerRank(rank) == seed + epoch[rank] + rank
\* g.manual_seed(self.seed + self.epoch)
GenSeed(rank) == seed + epoch[rank]
RECURSIVE RepeatList(_, _)
RepeatList(l, k) == IF k <= 0 THEN <<>> ELSE l \o RepeatList(l, k - 1)
\* (indices * int(self.total_size / len(indices) + 1))[:self.total_size]
Pad(indices) ==
    IF round_up
    THEN LET rep == RepeatList(indices, total_size \div Len(indices) + 1)
         IN SubSeq(rep, 1, Min2(Len(rep), total_size))
    ELSE indices
\* a shard that starts at 0 on every rank
ShardFromZero(indices, rank) ==
    LET stop == Min2(total_size, Len(indices))
        count == IF stop > 0 THEN CeilDiv(stop, world_size) ELSE 0
    IN [j \in 1..count |-> indices[(j - 1) * world_size + 1]]
\* indices[self.rank:self.total_size:self.world_size]
Shard(indices, rank) ==
    LET stop == Min2(total_size, Len(indices))
        count == IF stop > rank THEN CeilDiv(stop - rank, world_size) ELSE 0
    IN [j \in 1..count |-> indices[rank + (j - 1) * world_size + 1]]
Delivered(indices, rank) ==
    [pre |-> Pad(indices), seq |-> Shard(Pad(indices), rank)]

\* set_epoch on the sampler of one rank
SetEpoch(rank, e) ==
    /\ rank \in Ranks
    /\ e # epoch[rank]
    /\ epoch' = [epoch EXCEPT ![rank] = e]
    /\ UNCHANGED <<generator, out, sampCfg, dsCfg, dsState, augVars, propVars>>
\* __iter__ on the sampler of one rank
Iter(rank) ==
    /\ rank \in Ranks
    /\ IF shuffle
       THEN \E d \in (IF GenSeed(rank) \in DOMAIN generator
                      THEN {generator[GenSeed(rank)]} ELSE Draws) :
               /\ generator' = Put(generator, GenSeed(rank), d)
               /\ out' = [out EXCEPT ![rank] = Put(@, epoch[rank], Delivered(d, rank))]
       ELSE /\ out' = [out EXCEPT ![rank] =
                          Put(@, epoch[rank], Delivered(Arange(n_dataset), rank))]
            /\ UNCHANGED generator
    /\ UNCHANGED <<epoch, sampCfg, dsCfg, dsState, augVars, propVars>>
SamplerWeights(n) == {NoneVal, Some([i \in 1..n |-> (1 + i) * WeightUnit])}
InitSampler ==
    /\ n_dataset \in 1..MaxN
    /\ weights \in SamplerWeights(n_dataset)
    /\ shuffle \in BOOLEAN /\ replacement \in BOOLEAN /\ round_up \in BOOLEAN
    /\ seed \in Seeds
    /\ world_size \in WorldSizes
    /\ epoch = [r \in Ranks |-> 0]
    /\ generator = [x \in {} |-> <<>>]
    /\ out = [r \in Ranks |-> [x \in {} |-> [pre |-> <<>>, seq |-> <<>>]]]
    /\ ann_file = <<>> /\ frame_dirs = [v \in Videos |-> DirOf(1..5)]
    /\ custom_classes = Some(CustomClassList)
    /\ class_weights = (IF weights.isNone THEN NoneVal ELSE Some(LoadWeightTable))
    /\ augment_labels = FALSE /\ use_frames = TRUE /\ FPS = InitFPS(NoneVal, 30)
    /\ per_sample_weights = weights
    /\ IdleDatasetState /\ IdleAug /\ IdleProposals
NextSampler ==
    \/ \E rank \in Ranks, e \in Epochs : SetEpoch(rank, e)
    \/ \E rank \in Ranks : Iter(rank)
SpecSampler == InitSampler /\ [][NextSampler]_vars

\* ------------------------------------------------------------ properties of the sampler
Indices == 0..(n_dataset - 1)
HasRepeat(l) == \E i, j \in 1..Len(l) : i # j /\ l[i] = l[j]
\* the positions (0-based) of the pre-shard sequence that go to a rank
Positions(rank, len) ==
    {p \in 0..(len - 1) : p < total_size /\ p % world_size = rank}
\* the sequence is the stride rank, rank + world_size, ... of the pre-shard sequence
IsStride(d, rank) ==
    /\ Len(d.seq) = Cardinality(Positions(rank, Len(d.pre)))
    /\ \A j \in 1..Len(d.seq) : d.seq[j] = d.pre[rank + (j - 1) * world_size + 1]

\* C6 as stated: with round_up and world_size = 1 the sequence has the padded
\* total size and contains every dataset index, for every configuration of
\* shuffle, weights and replacement.
C6_CoversEveryIndex ==
    (round_up /\ world_size = 1) =>
        \A e \in DOMAIN out[0] :
            /\ Len(out[0][e].seq) = total_size
            /\ Indices \subseteq Range(out[0][e].seq)
\* C6 as amended: the length is the padded total size in every configuration; every
\* index is contained when shuffle is off, when there are no per-sample weights, or
\* when replacement is off (one positive weight per record).
C6_CoversUnlessReplacement ==
    (round_up /\ world_size = 1) =>
        \A e \in DOMAIN out[0] :
            /\ Len(out[0][e].seq) = total_size
            /\ (~shuffle \/ weights.isNone \/ ~replacement)
                  => Indices \subseteq Range(out[0][e].seq)
\* a shuffled epoch of a two-record dataset that delivers the records in reverse
C6_Witness ==
    /\ round_up /\ world_size = 1 /\ shuffle /\ n_dataset = 2
    /\ 0 \in DOMAIN out[0]
    /\ out[0][0].seq = <<1, 0>>

C8_Deterministic ==
    [][/\ \A r \in Ranks : \A e \in DOMAIN out[r] :
              e \in DOMAIN out'[r] /\ out'[r][e] = out[r][e]
       /\ \A r1, r2 \in Ranks : \A e \in DOMAIN out'[r1] \cap DOMAIN out'[r2] :
              out'[r1][e].pre = out'[r2][e].pre]_vars
\* both ranks have iterated epoch 0, rank 0 also epoch 1, and the two epochs were
\* shuffled differently
C8_Witness ==
    /\ world_size = 2 /\ shuffle /\ n_dataset = 2
    /\ 0 \in DOMAIN out[0] /\ 0 \in DOMAIN out[1] /\ 1 \in DOMAIN out[0]
    /\ out[0][0].pre # out[0][1].pre
    /\ epoch[0] = 0

====
